---- MODULE Spec2Model ----
(***************************************************************************)
(* Model of bin/imd_grd_to_nc.py: conversion of IMD GRD files to NetCDF.   *)
(* One run of main() is a behaviour: get_options, get_input, check_input,  *)
(* check_output, read_data, write_data, each modelled as one action.       *)
(* Strings the program inspects (paths) are sequences of one-character     *)
(* strings, so that the regular expressions are computed, not assumed.     *)
(***************************************************************************)
EXTENDS Integers, Sequences, FiniteSets, TLC

VARIABLES pc, fs, prog_options, prog_input_in, prog_input, prog_output,
          prog_data, nc_file, stderr

vars == <<pc, fs, prog_options, prog_input_in, prog_input, prog_output,
          prog_data, nc_file, stderr>>

(***************************************************************************)
(* Python values                                                           *)
(***************************************************************************)
\* Python None and a present value, for optional command line arguments
None == <<>>

Some(x) == <<x>>

\* truth value of an int-valued option, as in "if prog_options.year:"
TruthyInt(o) == o # None /\ o[1] # 0

\* truth value of a str-valued option, as in "if prog_options.outfile:"
TruthyStr(o) == o # None /\ o[1] # <<>>

\* truth value of an option whose value is a non-empty choice / name
TruthyName(o) == o # None /\ o[1] # ""

(***************************************************************************)
(* Characters and strings                                                  *)
(***************************************************************************)
DigitChars == <<"0", "1", "2", "3", "4", "5", "6", "7", "8", "9">>

UpperChars == <<"A", "B", "C", "D", "E", "F", "G", "H", "I", "J", "K", "L", "M",
                "N", "O", "P", "Q", "R", "S", "T", "U", "V", "W", "X", "Y", "Z">>

LowerChars == <<"a", "b", "c", "d", "e", "f", "g", "h", "i", "j", "k", "l", "m",
                "n", "o", "p", "q", "r", "s", "t", "u", "v", "w", "x", "y", "z">>

IsDigit(c) == \E i \in 1..10 : DigitChars[i] = c

DigitVal(c) == (CHOOSE i \in 1..10 : DigitChars[i] = c) - 1

\* case folding of re.IGNORECASE
ToLower(c) ==
    IF \E i \in 1..26 : UpperChars[i] = c
    THEN LowerChars[CHOOSE i \in 1..26 : UpperChars[i] = c]
    ELSE c

\* s[i..j] as a sequence, empty when i > j
Slice(s, i, j) == [k \in 1..(j - i + 1) |-> s[i + k - 1]]

EndsWith(s, suf) ==
    /\ Len(suf) <= Len(s)
    /\ Slice(s, Len(s) - Len(suf) + 1, Len(s)) = suf

\* os.path.basename: what follows the last "/"
Basename(p) ==
    LET slashes == {i \in 1..Len(p) : p[i] = "/"}
    IN  IF slashes = {} THEN p
        ELSE Slice(p, (CHOOSE i \in slashes : \A j \in slashes : j <= i) + 1, Len(p))

\* working directory of the process
CWD == <<"/", "w">>

\* os.path.abspath for paths without ".", ".." or doubled separators
Abspath(p) ==
    IF Len(p) > 0 /\ p[1] = "/" THEN p ELSE CWD \o <<"/">> \o p

\* re.match(r'.*<word>.*', s, flags=re.IGNORECASE) for a lower case word
MatchWordIgnoreCase(word, s) ==
    \E i \in 1..(Len(s) - Len(word) + 1) :
        \A k \in 1..Len(word) : ToLower(s[i + k - 1]) = word[k]

\* variant: the rightmost match instead of the leftmost
SearchFourDigits_Rightmost(s) ==
    LET hits == {i \in 1..(Len(s) - 3) : \A k \in 0..3 : IsDigit(s[i + k])}
    IN  IF hits = {} THEN 0 ELSE CHOOSE i \in hits : \A j \in hits : j <= i

\* re.search(r'[0-9]{4}', s): start of the leftmost match, 0 when no match
SearchFourDigits(s) ==
    LET hits == {i \in 1..(Len(s) - 3) : \A k \in 0..3 : IsDigit(s[i + k])}
    IN  IF hits = {} THEN 0 ELSE CHOOSE i \in hits : \A j \in hits : i <= j

\* int(match.group(0)) for the four characters matched at position i
IntOfMatch(s, i) ==
    1000 * DigitVal(s[i]) + 100 * DigitVal(s[i + 1])
        + 10 * DigitVal(s[i + 2]) + DigitVal(s[i + 3])

\* variant: extension taken from the first "." of the path, as '\..*$' would
ExtMatch_FirstDot(s) ==
    LET dots == {i \in 1..Len(s) : s[i] = "."}
    IN  IF dots = {} THEN 0
        ELSE LET first == CHOOSE i \in dots : \A j \in dots : i <= j
             IN  IF first < Len(s) THEN first ELSE 0

\* position of the "." of a trailing '\.[^\.]+$', 0 when there is none
ExtMatch(s) ==
    LET dots == {i \in 1..Len(s) : s[i] = "."}
    IN  IF dots = {} THEN 0
        ELSE LET last == CHOOSE i \in dots : \A j \in dots : j <= i
             IN  IF last < Len(s) THEN last ELSE 0

(***************************************************************************)
(* Global variables of the program                                         *)
(***************************************************************************)
MIN_YEAR == 1900

MAX_YEAR == 2100

\* lats / lons are kept by their lengths, np.arange(...).shape[0]
DATA_TYPES ==
    [rain    |-> [nlats |-> 129, nlons |-> 135, nc_var |-> "rainfall",
                  nc_units |-> "mm", fill |-> "-999"],
     mintemp |-> [nlats |-> 31, nlons |-> 31, nc_var |-> "min_temp",
                  nc_units |-> "celsius", fill |-> "99.9"],
     maxtemp |-> [nlats |-> 31, nlons |-> 31, nc_var |-> "max_temp",
                  nc_units |-> "celsius", fill |-> "99.9"]]

NC_CONFIG == [file_ext |-> <<".", "n", "c">>, time_var |-> "time"]

SIZE_RAIN_365 == 25425901

SIZE_RAIN_366 == 25495561

SIZE_TEMP_365 == 1403061

SIZE_TEMP_366 == 1406905

(***************************************************************************)
(* Command lines and files the runs are checked on                         *)
(***************************************************************************)
\* longest run of digits in a generated file name
MaxRun == 5

DigitSeeds == { <<"2", "0", "0", "1", "2", "3", "4">>,
                <<"2", "0", "0", "0", "1", "2", "3">> }

DigitRuns == { <<>> } \cup { Slice(d, 1, n) : d \in DigitSeeds, n \in 3..MaxRun }

InDirs == { <<>>, <<"/", "M", "a", "x", ".", "2", "0", "0", "4", "/">> }

InStems == { <<"r", "f">>, <<"t", "M", "A", "X">>, <<"m", "i", "n">>,
             <<"m", "a", "x", "M", "i", "n">> }

InExts == { <<>>, <<".", "g", "r", "d">>, <<".", "n", "c">> }

YearRuns == { <<>>, <<"2", "0", "0", "1">> }

\* every stem with every digit run, and every directory with every extension
InFiles ==
    { s \o r \o <<".", "g", "r", "d">> : s \in InStems, r \in DigitRuns }
        \cup { d \o <<"r", "f">> \o r \o e : d \in InDirs, r \in YearRuns, e \in InExts }

OutFiles == { <<"/", "o", ".", "n", "c">> }

\* byte sizes of the input file: the four legal ones and one that is not
FileSizes == { SIZE_RAIN_365, SIZE_RAIN_366, SIZE_TEMP_365, SIZE_TEMP_366,
               SIZE_TEMP_365 - 1 }

YearArgs == { -1, 0, 1900, 2000, 2001, 2101 }

TypeArgs == { "rain", "mintemp", "maxtemp" }

NcVarArgs == { "precip" }

NcUnitsArgs == { "inches" }

Opt(S) == { None } \cup { Some(x) : x \in S }

(***************************************************************************)
(* State                                                                   *)
(***************************************************************************)
NoOptions == [infile |-> <<>>, outfile |-> None, clobber |-> FALSE, type |-> None,
              year |-> None, ncvar |-> None, ncunits |-> None]

NoInput == [filename |-> <<>>, size |-> 0, type |-> "", days |-> 0, year |-> 0,
            year_match |-> FALSE]

NoOutput == [filename |-> <<>>, nc_var |-> "", nc_units |-> ""]

NoData == [nlats |-> 0, nlons |-> 0, type |-> "", year |-> 0, days |-> 0,
           fill |-> "", records |-> 0]

NoFile == [created |-> FALSE, filename |-> <<>>, data_var |-> "", data_units |-> "",
           fill |-> "", times |-> 0, since_year |-> 0, records |-> 0]

\* one message written to sys.stderr: its kind and the values formatted into it
Diag(kind, year, hint, t_out, t_in) ==
    [kind |-> kind, year |-> year, hint |-> hint, type_out |-> t_out, type_in |-> t_in]

\* what the file system has answered so far: os.path.getsize of the input
\* file (None when os.path.exists said no), os.path.exists of the output path
NoFs == [in_size |-> None, out_exists |-> FALSE]

Init ==
    /\ pc = "get_options"
    /\ fs = NoFs
    /\ prog_options = NoOptions
    /\ prog_input_in = NoInput
    /\ prog_input = NoInput
    /\ prog_output = NoOutput
    /\ prog_data = NoData
    /\ nc_file = NoFile
    /\ stderr = <<>>

\* sys.exit(1) after writing one message to stderr
Exit1(d) ==
    /\ pc' = "exit"
    /\ stderr' = Append(stderr, d)

(***************************************************************************)
(* get_options                                                             *)
(***************************************************************************)
get_options ==
    /\ pc = "get_options"
    /\ \E i \in InFiles, o \in Opt(OutFiles), c \in BOOLEAN, t \in Opt(TypeArgs),
          y \in Opt(YearArgs), v \in Opt(NcVarArgs), u \in Opt(NcUnitsArgs) :
          prog_options' = [infile |-> i, outfile |-> o, clobber |-> c, type |-> t,
                           year |-> y, ncvar |-> v, ncunits |-> u]
    /\ pc' = "get_input"
    /\ UNCHANGED <<fs, prog_input_in, prog_input, prog_output, prog_data, nc_file, stderr>>

(***************************************************************************)
(* get_input                                                               *)
(***************************************************************************)
\* type and day count from the file size; type "" for an invalid size
SizeInfo(input_size) ==
    IF input_size = SIZE_RAIN_365 THEN [type |-> "rain", days |-> 365]
    ELSE IF input_size = SIZE_RAIN_366 THEN [type |-> "rain", days |-> 366]
    ELSE IF input_size = SIZE_TEMP_365 THEN [type |-> "temp", days |-> 365]
    ELSE IF input_size = SIZE_TEMP_366 THEN [type |-> "temp", days |-> 366]
    ELSE [type |-> "", days |-> 0]

\* the two "if re.match" statements that follow the size test, in order
GuessMinMax(type, in_file) ==
    LET t1 == IF MatchWordIgnoreCase(<<"m", "a", "x">>, Basename(in_file))
              THEN "maxtemp" ELSE type
    IN  IF MatchWordIgnoreCase(<<"m", "i", "n">>, Basename(in_file))
        THEN "mintemp" ELSE t1

\* year guessed from the file name
GuessYear(in_file) ==
    LET m == SearchFourDigits(in_file)
    IN  IF m # 0 THEN [year |-> IntOfMatch(in_file, m), year_match |-> TRUE]
        ELSE [year |-> -1, year_match |-> FALSE]

get_input ==
    /\ pc = "get_input"
    /\ \E input_size \in Opt(FileSizes) :
          LET in_file == prog_options.infile
              info == SizeInfo(input_size[1])
              y == GuessYear(in_file)
          IN  /\ fs' = [fs EXCEPT !.in_size = input_size]
              /\ IF input_size = None
                 THEN /\ Exit1(Diag("noinput", 0, FALSE, "", ""))
                      /\ UNCHANGED prog_input_in
                 ELSE IF info.type = ""
                 THEN /\ Exit1(Diag("size", 0, FALSE, "", ""))
                      /\ UNCHANGED prog_input_in
                 ELSE /\ prog_input_in' =
                            [filename |-> Abspath(in_file), size |-> input_size[1],
                             type |-> GuessMinMax(info.type, in_file),
                             days |-> info.days, year |-> y.year,
                             year_match |-> y.year_match]
                      /\ pc' = "check_input"
                      /\ UNCHANGED stderr
    /\ UNCHANGED <<prog_options, prog_input, prog_output, prog_data, nc_file>>

(***************************************************************************)
(* check_input                                                             *)
(***************************************************************************)
\* type given as a program option, else the detected one
EffectiveType(options, input_in) ==
    IF TruthyName(options.type) THEN options.type[1] ELSE input_in.type

\* variant: the test of a 'rain' option against the detected type left out
TypeMismatch_NoRainTest(type_out, type_in) ==
    \/ type_out = "min_temp" /\ type_in = "rain"
    \/ type_out = "max_temp" /\ type_in = "rain"

\* "check if the user specified data type matches the detected type"
TypeMismatch(type_out, type_in) ==
    \/ type_out = "rain" /\ type_in # "rain"
    \/ type_out = "min_temp" /\ type_in = "rain"
    \/ type_out = "max_temp" /\ type_in = "rain"

\* year given as a program option, else the detected one
EffectiveYear(options, input_in) ==
    IF TruthyInt(options.year)
    THEN [year |-> options.year[1], year_match |-> FALSE]
    ELSE [year |-> input_in.year, year_match |-> input_in.year_match]

YearOutOfRange(year) == MIN_YEAR > year \/ MAX_YEAR < year

LeapMismatch366(days, year) == days = 366 /\ year % 4 # 0

\* variant: the Gregorian century rule instead of divisibility by 4 alone
LeapMismatch365_Gregorian(days, year) ==
    days = 365 /\ year % 4 = 0 /\ (year % 100 # 0 \/ year % 400 = 0)

LeapMismatch365(days, year) == days = 365 /\ year % 4 = 0

check_input ==
    /\ pc = "check_input"
    /\ LET type_out == EffectiveType(prog_options, prog_input_in)
           y == EffectiveYear(prog_options, prog_input_in)
       IN  IF type_out = "temp"
           THEN Exit1(Diag("temp", 0, FALSE, "", "")) /\ UNCHANGED prog_input
           ELSE IF TypeMismatch(type_out, prog_input_in.type)
           THEN /\ Exit1(Diag("mismatch", 0, FALSE, type_out, prog_input_in.type))
                /\ UNCHANGED prog_input
           ELSE IF y.year = -1
           THEN Exit1(Diag("noyear", 0, FALSE, "", "")) /\ UNCHANGED prog_input
           ELSE IF YearOutOfRange(y.year)
           THEN Exit1(Diag("range", y.year, FALSE, "", "")) /\ UNCHANGED prog_input
           ELSE IF LeapMismatch366(prog_input_in.days, y.year)
           THEN Exit1(Diag("leap366", y.year, y.year_match, "", "")) /\ UNCHANGED prog_input
           ELSE IF LeapMismatch365(prog_input_in.days, y.year)
           THEN Exit1(Diag("leap365", y.year, y.year_match, "", "")) /\ UNCHANGED prog_input
           ELSE /\ prog_input' =
                      [filename |-> prog_input_in.filename, size |-> prog_input_in.size,
                       type |-> type_out, days |-> prog_input_in.days,
                       year |-> y.year, year_match |-> y.year_match]
                /\ pc' = "check_output"
                /\ UNCHANGED stderr
    /\ UNCHANGED <<fs, prog_options, prog_input_in, prog_output, prog_data, nc_file>>

(***************************************************************************)
(* check_output                                                            *)
(***************************************************************************)
\* output file name: the option, else the input name with '\.[^\.]+$'
\* replaced by the NetCDF extension, else the input name with it appended
OutputFilename(options, filename) ==
    IF TruthyStr(options.outfile) THEN options.outfile[1]
    ELSE LET dot == ExtMatch(filename)
         IN  IF dot # 0 THEN Slice(filename, 1, dot - 1) \o NC_CONFIG.file_ext
             ELSE filename \o NC_CONFIG.file_ext

\* variant: the clobber flag read the wrong way round
OutputCollision_Inverted(exists, clobber) == exists /\ clobber

\* "check if the output file exists and if clobber flag is set"
OutputCollision(exists, clobber) == exists /\ ~clobber

check_output ==
    /\ pc = "check_output"
    /\ \E exists \in BOOLEAN :
          LET filename == OutputFilename(prog_options, prog_input.filename)
          IN  \* the input file is known to exist
              /\ filename = prog_input.filename => exists
              /\ fs' = [fs EXCEPT !.out_exists = exists]
              /\ IF OutputCollision(exists, prog_options.clobber)
                 THEN Exit1(Diag("exists", 0, FALSE, "", "")) /\ UNCHANGED prog_output
                 ELSE /\ prog_output' =
                            [filename |-> filename,
                             nc_var |-> IF TruthyName(prog_options.ncvar)
                                        THEN prog_options.ncvar[1]
                                        ELSE DATA_TYPES[prog_input.type].nc_var,
                             nc_units |-> IF TruthyName(prog_options.ncunits)
                                          THEN prog_options.ncunits[1]
                                          ELSE DATA_TYPES[prog_input.type].nc_units]
                      /\ pc' = "read_data"
                      /\ UNCHANGED stderr
    /\ UNCHANGED <<prog_options, prog_input_in, prog_input, prog_data, nc_file>>

(***************************************************************************)
(* read_data                                                               *)
(***************************************************************************)
\* day i of the "for i in range(data_days)" loop reads at offset i * day_len,
\* the earlier days having read day_len bytes each; struct.unpack raises
\* struct.error when the read returns fewer than day_len bytes
ShortRead(i, day_len, size) == size - i * day_len < day_len

\* number of days stored by the loop and whether it ran to its end
ReadDays(data_days, day_len, size) ==
    LET short == {i \in 0..(data_days - 1) : ShortRead(i, day_len, size)}
    IN  IF short = {} THEN [records |-> data_days, ok |-> TRUE]
        ELSE [records |-> CHOOSE i \in short : \A j \in short : i <= j, ok |-> FALSE]

read_data ==
    /\ pc = "read_data"
    /\ LET data_type == prog_input.type
           lat_count == DATA_TYPES[data_type].nlats
           lon_count == DATA_TYPES[data_type].nlons
           r == ReadDays(prog_input.days, lat_count * lon_count * 4, prog_input.size)
       IN  /\ prog_data' =
                 [nlats |-> lat_count, nlons |-> lon_count, type |-> data_type,
                  year |-> prog_input.year, days |-> prog_input.days,
                  fill |-> DATA_TYPES[data_type].fill, records |-> r.records]
           /\ pc' = IF r.ok THEN "write_data" ELSE "raise"
    /\ UNCHANGED <<fs, prog_options, prog_input_in, prog_input, prog_output, nc_file, stderr>>

(***************************************************************************)
(* write_data                                                              *)
(***************************************************************************)
\* name and units given to the data variable created in the NetCDF file
DataVarName(data, output) == DATA_TYPES[data.type].nc_var

DataVarUnits(data, output) == DATA_TYPES[data.type].nc_units

write_data ==
    /\ pc = "write_data"
    /\ nc_file' = [created |-> TRUE, filename |-> prog_output.filename,
                   data_var |-> DataVarName(prog_data, prog_output),
                   data_units |-> DataVarUnits(prog_data, prog_output),
                   fill |-> DATA_TYPES[prog_data.type].fill,
                   times |-> prog_data.days, since_year |-> prog_data.year,
                   records |-> prog_data.records]
    /\ pc' = "done"
    /\ UNCHANGED <<fs, prog_options, prog_input_in, prog_input, prog_output, prog_data, stderr>>

(***************************************************************************)
(* main                                                                    *)
(***************************************************************************)
Next ==
    \/ get_options
    \/ get_input
    \/ check_input
    \/ check_output
    \/ read_data
    \/ write_data

Spec == Init /\ [][Next]_vars

(***************************************************************************)
(* Vocabulary of the properties, stated from the command line, the file    *)
(* name and the file size, not from the program's own tests                *)
(***************************************************************************)
\* get_input returned
InputOk == prog_input_in # NoInput

\* check_input ran, and returned or exited
CheckedInput == InputOk /\ pc # "check_input"

\* check_input returned
Accepted == prog_input # NoInput

\* check_output returned
Resolved == prog_output # NoOutput

LegalSizes == {SIZE_RAIN_365, SIZE_RAIN_366, SIZE_TEMP_365, SIZE_TEMP_366}

RequestedType == IF prog_options.type # None THEN prog_options.type[1] ELSE prog_input_in.type

RequestedYear == IF prog_options.year # None THEN prog_options.year[1] ELSE prog_input_in.year

ContradictsDetected(type_opt, detected) ==
    \/ type_opt = "rain" /\ detected # "rain"
    \/ type_opt \in {"mintemp", "maxtemp"} /\ detected = "rain"

LeapConsistent(days, year) ==
    \/ days = 366 /\ year % 4 = 0
    \/ days = 365 /\ year % 4 # 0

\* the run stopped in sys.exit(1) with exactly one message, of one of the kinds
ExitedWith(kinds) == pc = "exit" /\ Len(stderr) = 1 /\ stderr[1].kind \in kinds

NothingDecodedOrWritten == prog_data = NoData /\ ~nc_file.created

\* maximal runs of digits of a string: where they start and how long they are
RunStarts(str) ==
    {i \in 1..Len(str) : IsDigit(str[i]) /\ (i = 1 \/ ~IsDigit(str[i - 1]))}

RunLen(str, i) ==
    CHOOSE n \in 1..Len(str) :
        /\ i + n - 1 <= Len(str)
        /\ \A k \in i..(i + n - 1) : IsDigit(str[k])
        /\ (i + n - 1 = Len(str) \/ ~IsDigit(str[i + n]))

Leftmost(S) == CHOOSE i \in S : \A j \in S : i <= j

Decimal4(str, i) ==
    ((DigitVal(str[i]) * 10 + DigitVal(str[i + 1])) * 10 + DigitVal(str[i + 2])) * 10
        + DigitVal(str[i + 3])

DotNC == <<".", "n", "c">>

(***************************************************************************)
(* C1                                                                      *)
(***************************************************************************)
\* C1: whenever --type is 'rain' and the detected type is not rainfall, or
\* --type is 'mintemp' or 'maxtemp' and the detected type is rainfall,
\* check_input stops the run with the type-mismatch message, and nothing is
\* decoded or written.
C1_TypeCrossCheck ==
    (/\ CheckedInput
     /\ prog_options.type # None
     /\ ContradictsDetected(prog_options.type[1], prog_input_in.type))
        => ExitedWith({"mismatch"}) /\ NothingDecodedOrWritten

(***************************************************************************)
(* C2                                                                      *)
(***************************************************************************)
\* C2: in every successful run the data variable of the NetCDF file has the
\* name and units of the --ncvar / --ncunits options when given, else the
\* defaults of the resolved data type.
C2_DataVarAsResolved ==
    pc = "done" =>
        /\ nc_file.data_var = IF prog_options.ncvar # None THEN prog_options.ncvar[1]
                              ELSE DATA_TYPES[prog_input.type].nc_var
        /\ nc_file.data_units = IF prog_options.ncunits # None THEN prog_options.ncunits[1]
                                ELSE DATA_TYPES[prog_input.type].nc_units

(***************************************************************************)
(* C3                                                                      *)
(***************************************************************************)
\* C3: for an input whose type is resolved without type error and whose year
\* lies in [1900, 2100], check_input accepts if and only if the day count is
\* 366 and the year divisible by 4, or 365 and the year not divisible by 4;
\* otherwise it stops with the leap-year message of the day count, naming the
\* year, and the "-y" hint is added exactly when the year is the file name's.
C3_LeapYearConsistency ==
    (/\ CheckedInput
     /\ RequestedType # "temp"
     /\ ~ContradictsDetected(RequestedType, prog_input_in.type)
     /\ RequestedYear \in MIN_YEAR..MAX_YEAR)
        => IF LeapConsistent(prog_input_in.days, RequestedYear)
           THEN Accepted /\ ~ExitedWith({"leap366", "leap365"})
           ELSE /\ ~Accepted
                /\ ExitedWith({IF prog_input_in.days = 366 THEN "leap366" ELSE "leap365"})
                /\ stderr[1].year = RequestedYear
                /\ stderr[1].hint = (prog_options.year = None)

\* a 365-day file whose name carries a leap year is refused, with the hint
C3_Witness ==
    /\ ExitedWith({"leap365"})
    /\ stderr[1].hint
    /\ prog_options.year = None
    /\ prog_input_in.year % 4 = 0

(***************************************************************************)
(* C4                                                                      *)
(***************************************************************************)
\* C4: get_input maps the four legal sizes to (rainfall, 365), (rainfall, 366),
\* (temperature, 365), (temperature, 366) and stops on any other size; the
\* file name is consulted only for a temperature size, giving 'maxtemp' for
\* 'max' without 'min', 'mintemp' for 'min' without 'max', 'temp' for neither.
C4_InferenceBySize ==
    LET size == fs.in_size[1]
        name == Basename(prog_options.infile)
        hasMax == MatchWordIgnoreCase(<<"m", "a", "x">>, name)
        hasMin == MatchWordIgnoreCase(<<"m", "i", "n">>, name)
    IN  (pc \notin {"get_options", "get_input"} /\ fs.in_size # None) =>
            /\ size \notin LegalSizes => ExitedWith({"size"}) /\ ~InputOk
            /\ size \in LegalSizes => InputOk
            /\ InputOk =>
                 /\ prog_input_in.days = IF size \in {SIZE_RAIN_366, SIZE_TEMP_366}
                                         THEN 366 ELSE 365
                 /\ size \in {SIZE_RAIN_365, SIZE_RAIN_366} => prog_input_in.type = "rain"
                 /\ size \in {SIZE_TEMP_365, SIZE_TEMP_366} =>
                      /\ hasMax /\ ~hasMin => prog_input_in.type = "maxtemp"
                      /\ hasMin /\ ~hasMax => prog_input_in.type = "mintemp"
                      /\ ~hasMax /\ ~hasMin => prog_input_in.type = "temp"
                      /\ prog_input_in.type # "rain"

(***************************************************************************)
(* C5                                                                      *)
(***************************************************************************)
\* C5: once the type checks are passed, a --year value, whatever it is, is the
\* year of the accepted input with the matched-from-filename flag false, and
\* a --year value outside [1900, 2100] always makes check_input stop; the
\* file name's year is used only when no --year was given.
C5_YearOverride ==
    (CheckedInput /\ ~ExitedWith({"temp", "mismatch"})) =>
        /\ (prog_options.year # None /\ Accepted) =>
              prog_input.year = prog_options.year[1] /\ ~prog_input.year_match
        /\ (prog_options.year # None /\ prog_options.year[1] \notin MIN_YEAR..MAX_YEAR) =>
              ~Accepted /\ ExitedWith({"noyear", "range"})
        /\ (prog_options.year = None /\ Accepted) =>
              /\ prog_input.year = prog_input_in.year
              /\ prog_input.year_match = prog_input_in.year_match

(***************************************************************************)
(* C6                                                                      *)
(***************************************************************************)
\* C6: the output file is created only after get_input, check_input and
\* check_output have all returned; a run that stops with an error leaves the
\* output path untouched; an output path that exists when check_output looks
\* is written only with --clobber.
C6_OutputSafety ==
    /\ nc_file.created =>
          /\ InputOk /\ Accepted /\ Resolved
          /\ pc = "done"
          /\ stderr = <<>>
          /\ nc_file.filename = prog_output.filename
    /\ pc \in {"exit", "raise"} => ~nc_file.created
    /\ (nc_file.created /\ fs.out_exists) => prog_options.clobber

\* an existing output file overwritten under --clobber
C6_Witness == nc_file.created /\ fs.out_exists /\ prog_options.clobber

(***************************************************************************)
(* C7                                                                      *)
(***************************************************************************)
\* C7: check_input emits exactly one message, that of the first failing check
\* in the order ambiguous type, type mismatch, year unknown, year out of
\* range, leap-year mismatch, and accepts when no check fails.
C7_FirstFailingCheck ==
    LET first ==
          IF RequestedType = "temp" THEN {"temp"}
          ELSE IF ContradictsDetected(RequestedType, prog_input_in.type) THEN {"mismatch"}
          ELSE IF RequestedYear = -1 THEN {"noyear"}
          ELSE IF RequestedYear \notin MIN_YEAR..MAX_YEAR THEN {"range"}
          ELSE IF ~LeapConsistent(prog_input_in.days, RequestedYear)
               THEN {"leap366", "leap365"}
          ELSE {}
    IN  CheckedInput =>
            IF first = {} THEN Accepted ELSE ~Accepted /\ ExitedWith(first)

(***************************************************************************)
(* C8                                                                      *)
(***************************************************************************)
\* C8 as stated: the year is the value of the leftmost run of exactly four
\* digits of the input path, with year_match true; -1 with year_match false
\* when the path has no such run.
C8_RunOfExactlyFour ==
    LET path == prog_options.infile
        four == {i \in RunStarts(path) : RunLen(path, i) = 4}
    IN  InputOk =>
            IF four # {}
            THEN /\ prog_input_in.year = Decimal4(path, Leftmost(four))
                 /\ prog_input_in.year_match
            ELSE prog_input_in.year = -1 /\ ~prog_input_in.year_match

\* C8 as amended: the year is the value of the first four digits of the
\* leftmost run of at least four digits of the input path, with year_match
\* true; -1 with year_match false when the path has no such run, and get_input
\* returns all the same for a file of legal size.
C8_FirstFourDigits ==
    LET path == prog_options.infile
        long == {i \in RunStarts(path) : RunLen(path, i) >= 4}
    IN  /\ InputOk =>
            IF long # {}
            THEN /\ prog_input_in.year = Decimal4(path, Leftmost(long))
                 /\ prog_input_in.year_match
            ELSE prog_input_in.year = -1 /\ ~prog_input_in.year_match
        /\ (pc \notin {"get_options", "get_input"} /\ fs.in_size # None
              /\ fs.in_size[1] \in LegalSizes) => InputOk

\* a year taken from a run of more than four digits
C8_Witness ==
    /\ InputOk
    /\ prog_input_in.year_match
    /\ \E i \in RunStarts(prog_options.infile) :
          /\ RunLen(prog_options.infile, i) > 4
          /\ \A j \in RunStarts(prog_options.infile) :
                RunLen(prog_options.infile, j) >= 4 => i <= j

(***************************************************************************)
(* C9                                                                      *)
(***************************************************************************)
\* C9: for every input accepted by check_input, days x latCount x lonCount x 4
\* of the resolved type does not exceed the file size; read_data never ends
\* in a short read and stores every one of the days.
C9_NoShortRead ==
    /\ pc # "raise"
    /\ Accepted =>
          prog_input.days * DATA_TYPES[prog_input.type].nlats
              * DATA_TYPES[prog_input.type].nlons * 4 <= prog_input.size
    /\ pc \in {"write_data", "done"} =>
          /\ prog_data.records = prog_input.days
          /\ prog_data.days = prog_input_in.days
          /\ prog_data.nlats = DATA_TYPES[prog_input.type].nlats
          /\ prog_data.nlons = DATA_TYPES[prog_input.type].nlons

\* a file decoded under a --type option that differs from the detected type
C9_Witness ==
    /\ pc = "write_data"
    /\ prog_options.type # None
    /\ prog_input.type # prog_input_in.type
    /\ prog_data.records = prog_input.days

(***************************************************************************)
(* C10                                                                     *)
(***************************************************************************)
\* C10 as stated: without --outfile the resolved output path ends in '.nc' and
\* is never the input path, so no run writes over its input file.
C10_NeverTheInputPath ==
    (Resolved /\ prog_options.outfile = None) =>
        /\ EndsWith(prog_output.filename, DotNC)
        /\ prog_output.filename # prog_input.filename
        /\ nc_file.created => nc_file.filename # prog_input.filename

\* C10 as amended: without --outfile the resolved output path is the input
\* path with its trailing '.<non-dot chars>' replaced by '.nc', or with '.nc'
\* appended; it ends in '.nc'; it is the input path only when the input path
\* itself ends in '.nc', and then the run stops with the output-exists message
\* unless --clobber was given, so only a run with --clobber writes over its
\* input file.
C10_DefaultOutputPath ==
    LET inp == prog_input.filename
        out == prog_output.filename
    IN  /\ (Resolved /\ prog_options.outfile = None) =>
              /\ EndsWith(out, DotNC)
              /\ \E k \in 0..Len(inp) :
                    /\ out = Slice(inp, 1, k) \o DotNC
                    /\ k < Len(inp) =>
                          /\ inp[k + 1] = "."
                          /\ k + 1 < Len(inp)
                          /\ \A j \in (k + 2)..Len(inp) : inp[j] # "."
                    /\ k = Len(inp) => (Len(inp) = 0 \/ inp[Len(inp)] = "."
                                          \/ \A j \in 1..Len(inp) : inp[j] # ".")
              /\ out = inp => EndsWith(inp, DotNC) /\ prog_options.clobber
        /\ (Accepted /\ pc # "check_output" /\ prog_options.outfile = None
              /\ EndsWith(inp, DotNC) /\ ~prog_options.clobber) => ExitedWith({"exists"})
        /\ (nc_file.created /\ nc_file.filename = inp) => prog_options.clobber

\* a run that writes over its own input file
C10_Witness ==
    /\ prog_options.outfile = None
    /\ nc_file.created
    /\ nc_file.filename = prog_input.filename

====
